---- MODULE Spec2Model ----
(***************************************************************************)
(* PinholeViewer: the settings record shared by the screens, the exposure  *)
(* model (calculateFStop, calculateExposure, formatExposure) and the       *)
(* viewfinder geometry (getEffectiveDimensions, calculateViewfinderSize)   *)
(* of the three viewfinder screens and the camera-settings screen.         *)
(* The camera-settings screen also keeps a list of profiles, read from     *)
(* and written to local storage by asynchronous operations.                *)
(*                                                                         *)
(* JavaScript numbers are modelled as extended rationals [n, d] in lowest  *)
(* terms: d > 0 is the finite value n/d, d = 0 is Infinity (n = 1),        *)
(* -Infinity (n = -1) or NaN (n = 0).  Arithmetic is exact; the rounding   *)
(* of IEEE doubles is not modelled, except for Math.pow(x, 1.3), whose     *)
(* result is irrational and is computed in fixed point (PowScale).         *)
(***************************************************************************)
EXTENDS Integers, Sequences, FiniteSets, TLC

VARIABLES
  settings,    \* the AppSettings record passed to every screen
  dimensions,  \* the window size held by the screens
  permission,  \* the camera permission: "null" until known
  secondsArg,     \* the argument of a call of formatExposure
  rendered,    \* what that call returned, NotCalled before it returns
  profiles,    \* the profile list held by the camera-settings screen
  profileName, \* the text of the profile-name field
  showProfiles,  \* whether the profile section is unfolded
  stored,      \* what local storage holds under 'camera_profiles'
  pending,     \* the storage operations issued and not yet completed
  now,         \* the clock read by Date.now()
  alert,       \* the last alert shown, Absent when none was
  errorLogged, \* whether console.error has been called
  unhandledRejection  \* whether a promise was rejected with no handler

profileVars == <<profiles, profileName, showProfiles, stored, pending, now,
                 alert, errorLogged, unhandledRejection>>

vars == <<settings, dimensions, permission, secondsArg, rendered, profileVars>>

-----------------------------------------------------------------------------
(* JavaScript number arithmetic                                            *)

Abs(i) == IF i < 0 THEN -i ELSE i

Sign(i) == IF i < 0 THEN -1 ELSE IF i > 0 THEN 1 ELSE 0

RECURSIVE Gcd(_, _)
Gcd(a, b) == IF b = 0 THEN a ELSE Gcd(b, a % b)

\* the number n/d in lowest terms (d = 0: Infinity, -Infinity or NaN)
Num(n, d) ==
  IF d = 0 THEN [n |-> Sign(n), d |-> 0]
  ELSE LET g == Gcd(Abs(n), Abs(d))
       IN  [n |-> Sign(d) * (n \div g), d |-> Abs(d) \div g]

FromInt(i) == [n |-> i, d |-> 1]

NaN == [n |-> 0, d |-> 0]

Infinity == [n |-> 1, d |-> 0]

IsNaN(x) == x.d = 0 /\ x.n = 0

IsFinite(x) == x.d > 0

\* x < y; false when either side is NaN
Lt(x, y) == x.n * y.d < y.n * x.d

\* x > y; false when either side is NaN
Gt(x, y) == Lt(y, x)

\* x * y, cross-reduced before multiplying; Infinity * 0 is NaN
Mul(x, y) ==
  IF x.d = 0 \/ y.d = 0 THEN Num(x.n * y.n, 0)
  ELSE LET g1 == Gcd(Abs(x.n), y.d)
           g2 == Gcd(Abs(y.n), x.d)
       IN  [n |-> (x.n \div g1) * (y.n \div g2),
            d |-> (x.d \div g2) * (y.d \div g1)]

\* 1 / x: 1/0 is Infinity, 1/Infinity is 0, 1/NaN is NaN
Inv(x) ==
  IF IsNaN(x) THEN NaN
  ELSE IF x.d = 0 THEN FromInt(0)
  ELSE IF x.n = 0 THEN Infinity
  ELSE [n |-> Sign(x.n) * x.d, d |-> Abs(x.n)]

\* x / y; 0/0 is NaN
Div(x, y) == IF x.n = 0 /\ y.n = 0 THEN NaN ELSE Mul(x, Inv(y))

\* Math.floor of a finite number
Floor(x) == x.n \div x.d

\* Math.round of a finite number: the nearest integer, halves towards +Infinity
Round(x) == (2 * x.n + x.d) \div (2 * x.d)

\* x % y for finite x >= 0 and an integer y > 0
Rem(x, y) == Num(x.n % (y * x.d), x.d)

\* String(x) of an integer-valued or non-finite number
IntString(x) ==
  IF IsNaN(x) THEN "NaN"
  ELSE IF x.d = 0 THEN (IF x.n > 0 THEN "Infinity" ELSE "-Infinity")
  ELSE ToString(x.n)

\* Math.floor(x) and Math.round(x) as numbers; non-finite values pass through
MathFloor(x) == IF IsFinite(x) THEN FromInt(Floor(x)) ELSE x

MathRound(x) == IF IsFinite(x) THEN FromInt(Round(x)) ELSE x

\* toFixed1 cutting the digits after the first instead of rounding
toFixed1Truncating(x) ==
  IF IsNaN(x) THEN [kind |-> "NaN", tenths |-> 0]
  ELSE IF x.d = 0
    THEN [kind |-> IF x.n > 0 THEN "Infinity" ELSE "-Infinity", tenths |-> 0]
  ELSE [kind |-> "decimal",
        tenths |-> Sign(x.n) * Floor(Mul([n |-> Abs(x.n), d |-> x.d], FromInt(10)))]

\* x.toFixed(1): a decimal literal with one fractional digit, held as its
\* number of tenths (the nearest one, halves away from zero), or the
\* literal Infinity, -Infinity or NaN
toFixed1(x) ==
  IF IsNaN(x) THEN [kind |-> "NaN", tenths |-> 0]
  ELSE IF x.d = 0
    THEN [kind |-> IF x.n > 0 THEN "Infinity" ELSE "-Infinity", tenths |-> 0]
  ELSE [kind |-> "decimal",
        tenths |-> Sign(x.n) * Round(Mul([n |-> Abs(x.n), d |-> x.d], FromInt(10)))]

\* parseFloat of a literal produced by toFixed(1)
parseFloat(lit) ==
  IF lit.kind = "NaN" THEN NaN
  ELSE IF lit.kind = "Infinity" THEN Infinity
  ELSE IF lit.kind = "-Infinity" THEN [n |-> -1, d |-> 0]
  ELSE Num(lit.tenths, 10)

\* the characters of a literal produced by toFixed(1)
LiteralString(lit) ==
  IF lit.kind # "decimal" THEN lit.kind
  ELSE (IF lit.tenths < 0 THEN "-" ELSE "")
       \o ToString(Abs(lit.tenths) \div 10) \o "." \o ToString(Abs(lit.tenths) % 10)

\* Math.pow(2, k) for an integer k
RECURSIVE Pow2(_)
Pow2(k) ==
  IF k = 0 THEN FromInt(1)
  ELSE IF k > 0 THEN Mul(FromInt(2), Pow2(k - 1))
  ELSE Mul(Num(1, 2), Pow2(k + 1))

\* Math.pow(x, 1.3) is computed in fixed point with PowScale units per 1
PowScale == 1000

RECURSIVE IsqrtIter(_, _, _)
IsqrtIter(v, lo, hi) ==
  IF lo >= hi THEN lo
  ELSE LET mid == (lo + hi + 1) \div 2
       IN  IF mid * mid <= v THEN IsqrtIter(v, mid, hi)
           ELSE IsqrtIter(v, lo, mid - 1)

\* the largest r with r * r <= v
Isqrt(v) == IsqrtIter(v, 0, 46340)

\* square root and product of fixed-point values
SqrtFix(u) == Isqrt(u * PowScale)

MulFix(a, b) == (a * b) \div PowScale

\* Math.pow(x, 1.3) for x >= 0: x * x^0.3, with
\* x^0.3 ~ x^(1/4) * x^(1/32) * x^(1/64) * x^(1/512) * x^(1/1024)
Pow13(x) ==
  IF ~IsFinite(x) THEN x
  ELSE LET t   == Round(Mul(x, FromInt(PowScale)))
           r2  == SqrtFix(SqrtFix(t))
           r5  == SqrtFix(SqrtFix(SqrtFix(r2)))
           r6  == SqrtFix(r5)
           r9  == SqrtFix(SqrtFix(SqrtFix(r6)))
           r10 == SqrtFix(r9)
           f   == MulFix(MulFix(MulFix(MulFix(r2, r5), r6), r9), r10)
       IN  Num(t * f, PowScale * PowScale)

-----------------------------------------------------------------------------
(* The catalogs of ../types and the inputs of the model                    *)

\* LIGHTING_CONDITIONS: name and reference f-stop
LIGHTING_CONDITIONS ==
  << [name |-> "Sunny",    fStop |-> Num(16, 1)],
     [name |-> "Cloudy",   fStop |-> Num(8, 1)],
     [name |-> "Overcast", fStop |-> Num(56, 10)] >>

\* FILM_FORMATS: name, width and height of the frame
FILM_FORMATS ==
  << [name |-> "35mm", width |-> 36,  height |-> 24],
     [name |-> "6x6",  width |-> 56,  height |-> 56],
     [name |-> "4x5",  width |-> 127, height |-> 102] >>

ISO_VALUES == <<100, 400>>

Range(seq) == {seq[i] : i \in DOMAIN seq}

\* an absent (undefined) optional field
Absent == ""

\* values of selectedCondition: absent, the catalog names, a name not in it
ConditionInputs ==
  {Absent, "Moonlight"} \cup {c.name : c \in Range(LIGHTING_CONDITIONS)}

\* what parseFloat makes of the text of the focal-length and pinhole-diameter
\* fields (mm): NaN for an empty or non-numeric text
FocalLengthInputs == {NaN, FromInt(0), FromInt(25), FromInt(50)}

PinholeSizeInputs == {NaN, FromInt(0), Num(3, 10), Num(4, 10)}

\* window sizes reported by Dimensions, both device orientations
ScreenSizes ==
  { [width |-> 800, height |-> 360], [width |-> 360, height |-> 800] }

\* window sizes for the geometry: every width and height on a grid
MaxScreenUnits == 25

ScreenLengths == {40 * k : k \in 1 .. MaxScreenUnits}

ScreenGrid == [width : ScreenLengths, height : ScreenLengths]

\* arguments of formatExposure: halves, thirds and tenths of a second
MaxSecondsNumerator == 1500

SecondsInputs ==
  {Num(n, d) : n \in 0 .. MaxSecondsNumerator, d \in {1, 2, 3, 10}}

\* rendered before formatExposure has been called
NotCalled == "not called"

\* the positions of the bracket slider (minimumValue, maximumValue, step 1)
BracketValues == -3 .. 3

\* the value calculateExposure returns when there is no exposure
Null == "null"

-----------------------------------------------------------------------------
(* ViewfinderScreen.tsx                                                    *)

isDeviceLandscape(dim) == dim.width > dim.height

calculateFStop(s) == toFixed1(Div(s.focalLength, s.pinholeSize))

\* getEffectiveDimensions with the test inverted
getEffectiveDimensionsInverted(s) ==
  LET orientation ==
        IF s.filmOrientation # Absent THEN s.filmOrientation ELSE "landscape"
  IN  IF orientation # "portrait"
      THEN [width |-> s.filmFormat.height, height |-> s.filmFormat.width]
      ELSE [width |-> s.filmFormat.width, height |-> s.filmFormat.height]

getEffectiveDimensions(s) ==
  LET orientation ==
        IF s.filmOrientation # Absent THEN s.filmOrientation ELSE "landscape"
  IN  IF orientation = "portrait"
      THEN [width |-> s.filmFormat.height, height |-> s.filmFormat.width]
      ELSE [width |-> s.filmFormat.width, height |-> s.filmFormat.height]

\* calculateViewfinderSize clamping the width without re-deriving the height
calculateViewfinderSizeKeepHeight(s, dim) ==
  LET screenWidth     == FromInt(dim.width)
      screenHeight    == FromInt(dim.height)
      effectiveDims   == getEffectiveDimensions(s)
      filmAspectRatio == Div(FromInt(effectiveDims.width),
                             FromInt(effectiveDims.height))
  IN  IF isDeviceLandscape(dim)
      THEN LET availableWidth  == Mul(screenWidth, Num(58, 100))
               availableHeight == FromInt(dim.height - 20)
               viewfinderHeight == Mul(availableHeight, Num(92, 100))
               viewfinderWidth  == Mul(viewfinderHeight, filmAspectRatio)
           IN  IF Gt(viewfinderWidth, availableWidth)
               THEN [width |-> availableWidth, height |-> viewfinderHeight]
               ELSE [width |-> viewfinderWidth, height |-> viewfinderHeight]
      ELSE LET availableWidth  == FromInt(dim.width - 32)
               availableHeight == Mul(screenHeight, Num(50, 100))
               viewfinderWidth  == Mul(availableWidth, Num(95, 100))
               viewfinderHeight == Div(viewfinderWidth, filmAspectRatio)
           IN  IF Gt(viewfinderHeight, availableHeight)
               THEN [width |-> viewfinderWidth, height |-> availableHeight]
               ELSE [width |-> viewfinderWidth, height |-> viewfinderHeight]

\* calculateViewfinderSize testing the height against the whole screen
calculateViewfinderSizeScreenHeight(s, dim) ==
  LET screenWidth     == FromInt(dim.width)
      screenHeight    == FromInt(dim.height)
      effectiveDims   == getEffectiveDimensions(s)
      filmAspectRatio == Div(FromInt(effectiveDims.width),
                             FromInt(effectiveDims.height))
  IN  IF isDeviceLandscape(dim)
      THEN LET availableWidth  == Mul(screenWidth, Num(58, 100))
               availableHeight == FromInt(dim.height - 20)
               viewfinderHeight == Mul(availableHeight, Num(92, 100))
               viewfinderWidth  == Mul(viewfinderHeight, filmAspectRatio)
           IN  IF Gt(viewfinderWidth, screenWidth)
               THEN [width  |-> availableWidth,
                     height |-> Div(availableWidth, filmAspectRatio)]
               ELSE [width |-> viewfinderWidth, height |-> viewfinderHeight]
      ELSE LET availableWidth  == FromInt(dim.width - 32)
               availableHeight == Mul(screenHeight, Num(50, 100))
               viewfinderWidth  == Mul(availableWidth, Num(95, 100))
               viewfinderHeight == Div(viewfinderWidth, filmAspectRatio)
           IN  IF Gt(viewfinderHeight, screenHeight)
               THEN [width  |-> Mul(availableHeight, filmAspectRatio),
                     height |-> availableHeight]
               ELSE [width |-> viewfinderWidth, height |-> viewfinderHeight]

\* calculateViewfinderSize not clamping the height on a portrait device
calculateViewfinderSizeWidthOnly(s, dim) ==
  LET screenWidth     == FromInt(dim.width)
      effectiveDims   == getEffectiveDimensions(s)
      filmAspectRatio == Div(FromInt(effectiveDims.width),
                             FromInt(effectiveDims.height))
  IN  IF isDeviceLandscape(dim)
      THEN LET availableWidth  == Mul(screenWidth, Num(58, 100))
               availableHeight == FromInt(dim.height - 20)
               viewfinderHeight == Mul(availableHeight, Num(92, 100))
               viewfinderWidth  == Mul(viewfinderHeight, filmAspectRatio)
           IN  IF Gt(viewfinderWidth, availableWidth)
               THEN [width  |-> availableWidth,
                     height |-> Div(availableWidth, filmAspectRatio)]
               ELSE [width |-> viewfinderWidth, height |-> viewfinderHeight]
      ELSE LET availableWidth  == FromInt(dim.width - 32)
               viewfinderWidth  == Mul(availableWidth, Num(95, 100))
           IN  [width  |-> viewfinderWidth,
                height |-> Div(viewfinderWidth, filmAspectRatio)]

calculateViewfinderSize(s, dim) ==
  LET screenWidth     == FromInt(dim.width)
      screenHeight    == FromInt(dim.height)
      effectiveDims   == getEffectiveDimensions(s)
      filmAspectRatio == Div(FromInt(effectiveDims.width),
                             FromInt(effectiveDims.height))
  IN  IF isDeviceLandscape(dim)
      THEN LET availableWidth  == Mul(screenWidth, Num(58, 100))
               availableHeight == FromInt(dim.height - 20)
               viewfinderHeight == Mul(availableHeight, Num(92, 100))
               viewfinderWidth  == Mul(viewfinderHeight, filmAspectRatio)
           IN  IF Gt(viewfinderWidth, availableWidth)
               THEN [width  |-> availableWidth,
                     height |-> Div(availableWidth, filmAspectRatio)]
               ELSE [width |-> viewfinderWidth, height |-> viewfinderHeight]
      ELSE LET availableWidth  == FromInt(dim.width - 32)
               availableHeight == Mul(screenHeight, Num(50, 100))
               viewfinderWidth  == Mul(availableWidth, Num(95, 100))
               viewfinderHeight == Div(viewfinderWidth, filmAspectRatio)
           IN  IF Gt(viewfinderHeight, availableHeight)
               THEN [width  |-> Mul(availableHeight, filmAspectRatio),
                     height |-> availableHeight]
               ELSE [width |-> viewfinderWidth, height |-> viewfinderHeight]

\* LIGHTING_CONDITIONS.find(c => c.name === name): the indices that match
findCondition(name) ==
  {i \in DOMAIN LIGHTING_CONDITIONS : LIGHTING_CONDITIONS[i].name = name}

\* the first matching entry
firstCondition(name) ==
  LIGHTING_CONDITIONS[CHOOSE i \in findCondition(name) :
                         \A j \in findCondition(name) : i <= j]

\* formatExposure with the first two thresholds inclusive
formatExposureInclusive(seconds) ==
  IF ~Gt(seconds, FromInt(1)) /\ ~IsNaN(seconds)
  THEN "1/" \o IntString(MathRound(Div(FromInt(1), seconds))) \o "s"
  ELSE IF ~Gt(seconds, FromInt(60)) /\ ~IsNaN(seconds)
  THEN LiteralString(toFixed1(seconds)) \o "s"
  ELSE LET minutes == MathFloor(Div(seconds, FromInt(60)))
           secs    == IF IsFinite(seconds)
                      THEN MathRound(Rem(seconds, 60)) ELSE NaN
       IN  IF Gt(secs, FromInt(0))
           THEN IntString(minutes) \o "m " \o IntString(secs) \o "s"
           ELSE IntString(minutes) \o "m"

formatExposure(seconds) ==
  IF Lt(seconds, FromInt(1))
  THEN "1/" \o IntString(MathRound(Div(FromInt(1), seconds))) \o "s"
  ELSE IF Lt(seconds, FromInt(60))
  THEN LiteralString(toFixed1(seconds)) \o "s"
  ELSE LET minutes == MathFloor(Div(seconds, FromInt(60)))
           secs    == IF IsFinite(seconds)
                      THEN MathRound(Rem(seconds, 60)) ELSE NaN
       IN  IF Gt(secs, FromInt(0))
           THEN IntString(minutes) \o "m " \o IntString(secs) \o "s"
           ELSE IntString(minutes) \o "m"

\* uncorrectedExposure on the quotient itself, not on its rendering
uncorrectedExposureExact(s, condition) ==
  LET actualFStop    == Div(s.focalLength, s.pinholeSize)
      referenceFStop == condition.fStop
      baseExposure   == Div(FromInt(1), FromInt(s.iso))
      ratio          == Div(actualFStop, referenceFStop)
  IN  Mul(baseExposure, Mul(ratio, ratio))

\* the exposure time before the reciprocity correction
uncorrectedExposure(s, condition) ==
  LET actualFStop    == parseFloat(calculateFStop(s))
      referenceFStop == condition.fStop
      baseExposure   == Div(FromInt(1), FromInt(s.iso))
      ratio          == Div(actualFStop, referenceFStop)
  IN  Mul(baseExposure, Mul(ratio, ratio))

\* exposureTime with the bracketing applied before the reciprocity test
exposureTimeBracketFirst(s, condition) ==
  LET exposure0 == Mul(uncorrectedExposure(s, condition), Pow2(s.bracketStops))
      exposure1 == IF s.useReciprocityFailure /\ Gt(exposure0, FromInt(1))
                   THEN Pow13(exposure0) ELSE exposure0
  IN  IF s.useRedFilter THEN Mul(exposure1, FromInt(8)) ELSE exposure1

\* exposureTime with the filter factor applied before the reciprocity test
exposureTimeFilterFirst(s, condition) ==
  LET exposure0 == uncorrectedExposure(s, condition)
      exposure1 == IF s.useRedFilter
                   THEN Mul(exposure0, FromInt(8)) ELSE exposure0
      exposure2 == IF s.useReciprocityFailure /\ Gt(exposure1, FromInt(1))
                   THEN Pow13(exposure1) ELSE exposure1
  IN  Mul(exposure2, Pow2(s.bracketStops))

\* exposureTime with the correction applied whenever the flag is set
exposureTimeAlwaysCorrected(s, condition) ==
  LET exposure0 == uncorrectedExposure(s, condition)
      exposure1 == IF s.useReciprocityFailure
                   THEN Pow13(exposure0) ELSE exposure0
      exposure2 == IF s.useRedFilter
                   THEN Mul(exposure1, FromInt(8)) ELSE exposure1
  IN  Mul(exposure2, Pow2(s.bracketStops))

\* exposureTime with the reciprocity test on the final exposure time
exposureTimeCorrectedLast(s, condition) ==
  LET exposure0 == uncorrectedExposure(s, condition)
      exposure1 == IF s.useRedFilter
                   THEN Mul(exposure0, FromInt(8)) ELSE exposure0
      exposure2 == Mul(exposure1, Pow2(s.bracketStops))
  IN  IF s.useReciprocityFailure /\ Gt(exposure2, FromInt(1))
      THEN Pow13(exposure2) ELSE exposure2

\* the exposure time calculateExposure hands to formatExposure
exposureTime(s, condition) ==
  LET exposure0 == uncorrectedExposure(s, condition)
      exposure1 == IF s.useReciprocityFailure /\ Gt(exposure0, FromInt(1))
                   THEN Pow13(exposure0) ELSE exposure0
      exposure2 == IF s.useRedFilter
                   THEN Mul(exposure1, FromInt(8)) ELSE exposure1
      bracketMultiplier == Pow2(s.bracketStops)
  IN  Mul(exposure2, bracketMultiplier)

\* calculateExposure falling back on the first entry of the catalog
calculateExposureDefaulting(s) ==
  IF s.selectedCondition = Absent THEN Null
  ELSE IF findCondition(s.selectedCondition) = {}
  THEN formatExposure(exposureTime(s, LIGHTING_CONDITIONS[1]))
  ELSE formatExposure(exposureTime(s, firstCondition(s.selectedCondition)))

\* calculateExposure refusing the settings it cannot expose for
calculateExposureValidating(s) ==
  IF s.selectedCondition = Absent THEN Null
  ELSE IF findCondition(s.selectedCondition) = {} THEN Null
  ELSE IF s.iso <= 0 \/ s.pinholeSize = FromInt(0) THEN Null
  ELSE formatExposure(exposureTime(s, firstCondition(s.selectedCondition)))

calculateExposure(s) ==
  IF s.selectedCondition = Absent THEN Null
  ELSE IF findCondition(s.selectedCondition) = {} THEN Null
  ELSE formatExposure(exposureTime(s, firstCondition(s.selectedCondition)))

\* the controls of the screen exist once the permission status is known
controlsRendered == permission # "null"

\* handleBracketChange taking the slider value as a number of stops to add
handleBracketChangeRelative(value) ==
  /\ controlsRendered
  /\ calculateExposure(settings) # Null
  /\ settings' = [settings EXCEPT !.bracketStops = settings.bracketStops + value]
  /\ UNCHANGED <<dimensions, permission, secondsArg, rendered, profileVars>>

\* the bracket sliders are rendered only when there is an exposure
handleBracketChange(value) ==
  /\ controlsRendered
  /\ calculateExposure(settings) # Null
  /\ settings' = [settings EXCEPT !.bracketStops = value]
  /\ UNCHANGED <<dimensions, permission, secondsArg, rendered, profileVars>>

\* newOrientation testing for 'landscape' instead of 'portrait'
newOrientationFromLandscape(s) ==
  IF s.filmOrientation = "landscape" THEN "portrait" ELSE "landscape"

\* the orientation toggleOrientation switches to
newOrientation(s) ==
  IF s.filmOrientation = "portrait" THEN "landscape" ELSE "portrait"

\* the label of the orientation button of the viewfinder
filmOrientationLabel(s) ==
  IF s.filmOrientation = "portrait" THEN "Portrait" ELSE "Landscape"

toggleOrientation ==
  /\ controlsRendered
  /\ settings' = [settings EXCEPT !.filmOrientation = newOrientation(settings)]
  /\ UNCHANGED <<dimensions, permission, secondsArg, rendered, profileVars>>

\* the Dimensions 'change' listener
dimensionsChange(window) ==
  /\ dimensions' = window
  /\ UNCHANGED <<settings, permission, secondsArg, rendered, profileVars>>

\* useCameraPermissions reports the status
permissionLoaded(granted) ==
  /\ permission = "null"
  /\ permission' = IF granted THEN "granted" ELSE "denied"
  /\ UNCHANGED <<settings, dimensions, secondsArg, rendered, profileVars>>

\* the Enable Camera button of the permission screen
requestPermission(granted) ==
  /\ permission = "denied"
  /\ permission' = IF granted THEN "granted" ELSE "denied"
  /\ UNCHANGED <<settings, dimensions, secondsArg, rendered, profileVars>>

\* what a screen shows: the layout, whether the live camera view is in it
\* and whether the permission request is
View(layout, camera, request) ==
  [layout |-> layout, camera |-> camera, request |-> request]

\* render showing the camera as soon as the permission status is known
renderCameraFirst(perm, dim) ==
  IF perm = "null" THEN View("empty", FALSE, FALSE)
  ELSE View(IF isDeviceLandscape(dim) THEN "landscape" ELSE "portrait",
            TRUE, perm # "granted")

\* what ViewfinderScreen returns
render(perm, dim) ==
  IF perm = "null" THEN View("empty", FALSE, FALSE)
  ELSE IF perm # "granted"
  THEN View(IF isDeviceLandscape(dim) THEN "landscape" ELSE "portrait",
            FALSE, TRUE)
  ELSE View(IF isDeviceLandscape(dim) THEN "landscape" ELSE "portrait",
            TRUE, FALSE)

\* what the screen of part_003 returns: the layout holds the camera when
\* the permission is granted and the permission request otherwise
renderPart003(perm, dim) ==
  IF perm = "null" THEN View("empty", FALSE, FALSE)
  ELSE View(IF isDeviceLandscape(dim) THEN "landscape" ELSE "portrait",
            perm = "granted", perm # "granted")

-----------------------------------------------------------------------------
(* The camera-settings screen                                              *)

calculateFStopCameraSettings(s) == toFixed1(Div(s.focalLength, s.pinholeSize))

\* x || 0 on a number: NaN and 0 are falsy
OrZero(x) == IF IsNaN(x) \/ x = FromInt(0) THEN FromInt(0) ELSE x

\* onChangeText of the focal-length field: parseFloat(text) || 0
changeFocalLength(parsed) ==
  /\ settings' = [settings EXCEPT !.focalLength = OrZero(parsed)]
  /\ UNCHANGED <<dimensions, permission, secondsArg, rendered, profileVars>>

\* onChangeText of the pinhole-diameter field: parseFloat(text) || 0
changePinholeSize(parsed) ==
  /\ settings' = [settings EXCEPT !.pinholeSize = OrZero(parsed)]
  /\ UNCHANGED <<dimensions, permission, secondsArg, rendered, profileVars>>

\* pressFilmFormat putting the film back in landscape orientation
pressFilmFormatResetting(format) ==
  /\ settings' = [settings EXCEPT !.filmFormat = format,
                                  !.filmOrientation = "landscape"]
  /\ UNCHANGED <<dimensions, permission, secondsArg, rendered, profileVars>>

pressFilmFormat(format) ==
  /\ settings' = [settings EXCEPT !.filmFormat = format]
  /\ UNCHANGED <<dimensions, permission, secondsArg, rendered, profileVars>>

\* the orientation buttons drawn as selected
orientationButtonActive(s) ==
  {button \in {"landscape", "portrait"} : s.filmOrientation = button}

pressFilmOrientation(orientation) ==
  /\ settings' = [settings EXCEPT !.filmOrientation = orientation]
  /\ UNCHANGED <<dimensions, permission, secondsArg, rendered, profileVars>>

pressIso(isoValue) ==
  /\ settings' = [settings EXCEPT !.iso = isoValue]
  /\ UNCHANGED <<dimensions, permission, secondsArg, rendered, profileVars>>

-----------------------------------------------------------------------------
(* The profiles of the camera-settings screen and their storage.           *)
(* A text is a sequence of characters.  Local storage completes the        *)
(* operations issued to it one at a time, in the order of issue; each      *)
(* completes or fails, and the code after the await runs with it.          *)

\* String.prototype.trim
RECURSIVE trimStart(_)
trimStart(text) ==
  IF text # <<>> /\ Head(text) = " " THEN trimStart(Tail(text)) ELSE text

RECURSIVE trimEnd(_)
trimEnd(text) ==
  IF text # <<>> /\ text[Len(text)] = " "
  THEN trimEnd(SubSeq(text, 1, Len(text) - 1)) ELSE text

\* the text as it is, for a test of the untrimmed name
trimNothing(text) == text

trim(text) == trimEnd(trimStart(text))

\* texts typed into the profile-name field
NameInputs == {<<" ">>, <<"a", " ">>}

\* the profile saveProfile forgetting the film orientation
newProfileAsIs(s, id, name) ==
  [ id              |-> id,
    name            |-> name,
    focalLength     |-> s.focalLength,
    pinholeSize     |-> s.pinholeSize,
    filmFormat      |-> s.filmFormat,
    filmOrientation |-> s.filmOrientation,
    iso             |-> s.iso ]

\* the profile saveProfile recording every film as landscape
newProfileLandscape(s, id, name) ==
  [ id              |-> id,
    name            |-> name,
    focalLength     |-> s.focalLength,
    pinholeSize     |-> s.pinholeSize,
    filmFormat      |-> s.filmFormat,
    filmOrientation |-> "landscape",
    iso             |-> s.iso ]

\* the profile saveProfile builds from the settings
newProfile(s, id, name) ==
  [ id              |-> id,
    name            |-> name,
    focalLength     |-> s.focalLength,
    pinholeSize     |-> s.pinholeSize,
    filmFormat      |-> s.filmFormat,
    filmOrientation |-> IF s.filmOrientation # Absent
                        THEN s.filmOrientation ELSE "landscape",
    iso             |-> s.iso ]

\* JSON.parse(JSON.stringify(list)): each profile keeps its seven keys, a
\* key whose value is undefined is dropped and reads back as undefined
jsonRoundTrip(list) ==
  [i \in DOMAIN list |->
     [ id              |-> list[i].id,
       name            |-> list[i].name,
       focalLength     |-> list[i].focalLength,
       pinholeSize     |-> list[i].pinholeSize,
       filmFormat      |-> list[i].filmFormat,
       filmOrientation |-> list[i].filmOrientation,
       iso             |-> list[i].iso ]]

\* a profile written by an earlier run of the application, before profiles
\* recorded the film orientation
EarlierProfile ==
  [ id              |-> "0",
    name            |-> <<"b">>,
    focalLength     |-> FromInt(25),
    pinholeSize     |-> Num(4, 10),
    filmFormat      |-> FILM_FORMATS[2],
    filmOrientation |-> Absent,
    iso             |-> ISO_VALUES[2] ]

\* what local storage holds under the key: no item, the JSON text of a
\* profile list, or a text that is not JSON
NoItem == [kind |-> "none", list |-> <<>>]

Json(list) == [kind |-> "json", list |-> jsonRoundTrip(list)]

Corrupt == [kind |-> "corrupt", list |-> <<>>]

\* what the key holds when the screen mounts
StoredInputs == {NoItem, Json(<<>>), Json(<<EarlierProfile>>), Corrupt}

MaxProfiles == 2

MaxPending == 2

MaxClock == 2

getItem == [op |-> "getItem"]

\* a write, with the handler that awaits it and the list its closure holds
setItem(value, caller, captured) ==
  [op |-> "setItem", value |-> value, caller |-> caller, captured |-> captured]

settingsVars == <<settings, dimensions, permission, secondsArg, rendered>>

\* the header of the profile section
toggleShowProfiles ==
  /\ showProfiles' = ~showProfiles
  /\ UNCHANGED <<settingsVars, profiles, profileName, stored, pending, now,
                 alert, errorLogged, unhandledRejection>>

\* onChangeText of the profile-name field
setProfileName(text) ==
  /\ showProfiles
  /\ profileName' = text
  /\ UNCHANGED <<settingsVars, profiles, showProfiles, stored, pending, now,
                 alert, errorLogged, unhandledRejection>>

\* saveProfile up to its await
saveProfile ==
  /\ showProfiles
  /\ IF trim(profileName) = <<>>
     THEN /\ alert' = "Please enter a profile name"
          /\ UNCHANGED <<profiles, pending>>
     ELSE /\ Len(profiles) < MaxProfiles
          /\ Len(pending) < MaxPending
          /\ LET updatedProfiles ==
                   Append(profiles,
                          newProfile(settings, ToString(now), profileName))
             IN  /\ profiles' = updatedProfiles
                 /\ pending' = Append(pending,
                                      setItem(updatedProfiles, "saveProfile",
                                              profiles))
          /\ UNCHANGED alert
  /\ UNCHANGED <<settingsVars, profileName, showProfiles, stored, now,
                 errorLogged, unhandledRejection>>

\* the record loadProfile hands to updateSettings
loadedSettings(s, profile) ==
  [s EXCEPT !.focalLength = profile.focalLength,
            !.pinholeSize = profile.pinholeSize,
            !.filmFormat = profile.filmFormat,
            !.filmOrientation = IF profile.filmOrientation # Absent
                                THEN profile.filmOrientation
                                ELSE "landscape",
            !.iso = profile.iso]

\* loadProfile putting the bracket slider back to 0
loadProfileResetting(profile) ==
  /\ showProfiles
  /\ settings' = [loadedSettings(settings, profile) EXCEPT !.bracketStops = 0]
  /\ showProfiles' = FALSE
  /\ alert' = "Profile loaded!"
  /\ UNCHANGED <<dimensions, permission, secondsArg, rendered, profiles,
                 profileName, stored, pending, now, errorLogged,
                 unhandledRejection>>

\* the press of a profile card
loadProfile(profile) ==
  /\ showProfiles
  /\ settings' = loadedSettings(settings, profile)
  /\ showProfiles' = FALSE
  /\ alert' = "Profile loaded!"
  /\ UNCHANGED <<dimensions, permission, secondsArg, rendered, profiles,
                 profileName, stored, pending, now, errorLogged,
                 unhandledRejection>>

\* deleteProfile up to its await
deleteProfile(id) ==
  /\ showProfiles
  /\ Len(pending) < MaxPending
  /\ LET updatedProfiles == SelectSeq(profiles, LAMBDA p : p.id # id)
     IN  /\ profiles' = updatedProfiles
         /\ pending' = Append(pending, setItem(updatedProfiles, "deleteProfile",
                                                profiles))
  /\ UNCHANGED <<settingsVars, profileName, showProfiles, stored, now, alert,
                 errorLogged, unhandledRejection>>

\* the read of loadProfiles completes: the rest of its try block
getItemResolves ==
  /\ pending # <<>>
  /\ Head(pending).op = "getItem"
  /\ pending' = Tail(pending)
  /\ IF stored.kind = "none"
     THEN UNCHANGED <<profiles, errorLogged>>
     ELSE IF stored.kind = "corrupt"
     THEN /\ errorLogged' = TRUE
          /\ UNCHANGED profiles
     ELSE /\ profiles' = stored.list
          /\ UNCHANGED errorLogged
  /\ UNCHANGED <<settingsVars, profileName, showProfiles, stored, now, alert,
                 unhandledRejection>>

\* the catch block of loadProfiles emptying the list
getItemRejectsClearing ==
  /\ pending # <<>>
  /\ Head(pending).op = "getItem"
  /\ pending' = Tail(pending)
  /\ errorLogged' = TRUE
  /\ profiles' = <<>>
  /\ UNCHANGED <<settingsVars, profileName, showProfiles, stored, now, alert,
                 unhandledRejection>>

\* the read of loadProfiles fails: its catch block
getItemRejects ==
  /\ pending # <<>>
  /\ Head(pending).op = "getItem"
  /\ pending' = Tail(pending)
  /\ errorLogged' = TRUE
  /\ UNCHANGED <<settingsVars, profiles, profileName, showProfiles, stored,
                 now, alert, unhandledRejection>>

\* a write completes: the rest of saveProfile, nothing for deleteProfile
setItemResolves ==
  /\ pending # <<>>
  /\ Head(pending).op = "setItem"
  /\ pending' = Tail(pending)
  /\ stored' = Json(Head(pending).value)
  /\ IF Head(pending).caller = "saveProfile"
     THEN /\ profileName' = <<>>
          /\ alert' = "Profile saved!"
     ELSE UNCHANGED <<profileName, alert>>
  /\ UNCHANGED <<settingsVars, profiles, showProfiles, now, errorLogged,
                 unhandledRejection>>

\* a write fails: neither saveProfile nor deleteProfile catches the rejection
setItemRejects ==
  /\ pending # <<>>
  /\ Head(pending).op = "setItem"
  /\ pending' = Tail(pending)
  /\ unhandledRejection' = TRUE
  /\ UNCHANGED <<settingsVars, profiles, profileName, showProfiles, stored,
                 now, alert, errorLogged>>

\* time passes
tick ==
  /\ now < MaxClock
  /\ now' = now + 1
  /\ UNCHANGED <<settingsVars, profiles, profileName, showProfiles, stored,
                 pending, alert, errorLogged, unhandledRejection>>

\* the profile state of a screen that has just mounted: useState and the
\* loadProfiles call of the mount effect
InitProfiles ==
  /\ profiles = <<>>
  /\ profileName = <<>>
  /\ showProfiles = FALSE
  /\ stored \in StoredInputs
  /\ pending = <<getItem>>
  /\ now = 1
  /\ alert = Absent
  /\ errorLogged = FALSE
  /\ unhandledRejection = FALSE

\* the same with nothing stored
InitNoProfiles ==
  /\ profiles = <<>>
  /\ profileName = <<>>
  /\ showProfiles = FALSE
  /\ stored = NoItem
  /\ pending = <<getItem>>
  /\ now = 1
  /\ alert = Absent
  /\ errorLogged = FALSE
  /\ unhandledRejection = FALSE

-----------------------------------------------------------------------------
(* The other two viewfinder screens (src/unnamed/part_002, part_003)       *)

calculateFStopPart002(s) == toFixed1(Div(s.focalLength, s.pinholeSize))

formatExposurePart002(seconds) ==
  IF Lt(seconds, FromInt(1))
  THEN "1/" \o IntString(MathRound(Div(FromInt(1), seconds))) \o "s"
  ELSE IF Lt(seconds, FromInt(60))
  THEN LiteralString(toFixed1(seconds)) \o "s"
  ELSE LET minutes == MathFloor(Div(seconds, FromInt(60)))
           secs    == IF IsFinite(seconds)
                      THEN MathRound(Rem(seconds, 60)) ELSE NaN
       IN  IF Gt(secs, FromInt(0))
           THEN IntString(minutes) \o "m " \o IntString(secs) \o "s"
           ELSE IntString(minutes) \o "m"

\* calculateExposure of part_002 leaving the red filter out
calculateExposurePart002Unfiltered(s) ==
  IF s.selectedCondition = Absent THEN Null
  ELSE IF findCondition(s.selectedCondition) = {} THEN Null
  ELSE LET condition      == firstCondition(s.selectedCondition)
           actualFStop    == parseFloat(calculateFStopPart002(s))
           referenceFStop == condition.fStop
           baseExposure   == Div(FromInt(1), FromInt(s.iso))
           ratio          == Div(actualFStop, referenceFStop)
           exposure0      == Mul(baseExposure, Mul(ratio, ratio))
           exposure1      == IF s.useReciprocityFailure
                                /\ Gt(exposure0, FromInt(1))
                             THEN Pow13(exposure0) ELSE exposure0
           bracketMultiplier == Pow2(s.bracketStops)
       IN  formatExposurePart002(Mul(exposure1, bracketMultiplier))

calculateExposurePart002(s) ==
  IF s.selectedCondition = Absent THEN Null
  ELSE IF findCondition(s.selectedCondition) = {} THEN Null
  ELSE LET condition      == firstCondition(s.selectedCondition)
           actualFStop    == parseFloat(calculateFStopPart002(s))
           referenceFStop == condition.fStop
           baseExposure   == Div(FromInt(1), FromInt(s.iso))
           ratio          == Div(actualFStop, referenceFStop)
           exposure0      == Mul(baseExposure, Mul(ratio, ratio))
           exposure1      == IF s.useReciprocityFailure
                                /\ Gt(exposure0, FromInt(1))
                             THEN Pow13(exposure0) ELSE exposure0
           exposure2      == IF s.useRedFilter
                             THEN Mul(exposure1, FromInt(8)) ELSE exposure1
           bracketMultiplier == Pow2(s.bracketStops)
       IN  formatExposurePart002(Mul(exposure2, bracketMultiplier))

calculateFStopPart003(s) == toFixed1(Div(s.focalLength, s.pinholeSize))

formatExposurePart003(seconds) ==
  IF Lt(seconds, FromInt(1))
  THEN "1/" \o IntString(MathRound(Div(FromInt(1), seconds))) \o "s"
  ELSE IF Lt(seconds, FromInt(60))
  THEN LiteralString(toFixed1(seconds)) \o "s"
  ELSE LET minutes == MathFloor(Div(seconds, FromInt(60)))
           secs    == IF IsFinite(seconds)
                      THEN MathRound(Rem(seconds, 60)) ELSE NaN
       IN  IF Gt(secs, FromInt(0))
           THEN IntString(minutes) \o "m " \o IntString(secs) \o "s"
           ELSE IntString(minutes) \o "m"

\* calculateExposure of part_003 leaving the red filter out
calculateExposurePart003Unfiltered(s) ==
  IF s.selectedCondition = Absent THEN Null
  ELSE IF findCondition(s.selectedCondition) = {} THEN Null
  ELSE LET condition      == firstCondition(s.selectedCondition)
           actualFStop    == parseFloat(calculateFStopPart003(s))
           referenceFStop == condition.fStop
           baseExposure   == Div(FromInt(1), FromInt(s.iso))
           ratio          == Div(actualFStop, referenceFStop)
           exposure0      == Mul(baseExposure, Mul(ratio, ratio))
           exposure1      == IF s.useReciprocityFailure
                                /\ Gt(exposure0, FromInt(1))
                             THEN Pow13(exposure0) ELSE exposure0
           bracketMultiplier == Pow2(s.bracketStops)
       IN  formatExposurePart003(Mul(exposure1, bracketMultiplier))

calculateExposurePart003(s) ==
  IF s.selectedCondition = Absent THEN Null
  ELSE IF findCondition(s.selectedCondition) = {} THEN Null
  ELSE LET condition      == firstCondition(s.selectedCondition)
           actualFStop    == parseFloat(calculateFStopPart003(s))
           referenceFStop == condition.fStop
           baseExposure   == Div(FromInt(1), FromInt(s.iso))
           ratio          == Div(actualFStop, referenceFStop)
           exposure0      == Mul(baseExposure, Mul(ratio, ratio))
           exposure1      == IF s.useReciprocityFailure
                                /\ Gt(exposure0, FromInt(1))
                             THEN Pow13(exposure0) ELSE exposure0
           exposure2      == IF s.useRedFilter
                             THEN Mul(exposure1, FromInt(8)) ELSE exposure1
           bracketMultiplier == Pow2(s.bracketStops)
       IN  formatExposurePart003(Mul(exposure2, bracketMultiplier))

calculateViewfinderSizePart002(s, dim) ==
  LET screenWidth     == FromInt(dim.width)
      screenHeight    == FromInt(dim.height)
      isScreenLandscape == dim.width > dim.height
      effectiveDims   == getEffectiveDimensions(s)
      filmAspectRatio == Div(FromInt(effectiveDims.width),
                             FromInt(effectiveDims.height))
  IN  IF isScreenLandscape
      THEN LET availableHeight  == FromInt(dim.height - 200)
               viewfinderHeight == Mul(availableHeight, Num(85, 100))
               viewfinderWidth  == Mul(viewfinderHeight, filmAspectRatio)
               widthBudget      == Mul(screenWidth, Num(85, 100))
           IN  IF Gt(viewfinderWidth, widthBudget)
               THEN [width  |-> widthBudget,
                     height |-> Div(widthBudget, filmAspectRatio)]
               ELSE [width |-> viewfinderWidth, height |-> viewfinderHeight]
      ELSE LET availableWidth  == FromInt(dim.width - 48)
               availableHeight == Mul(screenHeight, Num(55, 100))
               viewfinderWidth  == Mul(availableWidth, Num(95, 100))
               viewfinderHeight == Div(viewfinderWidth, filmAspectRatio)
           IN  IF Gt(viewfinderHeight, availableHeight)
               THEN [width  |-> Mul(availableHeight, filmAspectRatio),
                     height |-> availableHeight]
               ELSE [width |-> viewfinderWidth, height |-> viewfinderHeight]

calculateViewfinderSizePart003(s, dim) ==
  LET screenWidth     == FromInt(dim.width)
      screenHeight    == FromInt(dim.height)
      isLandscape     == dim.width > dim.height
      effectiveDims   == getEffectiveDimensions(s)
      filmAspectRatio == Div(FromInt(effectiveDims.width),
                             FromInt(effectiveDims.height))
  IN  IF isLandscape
      THEN LET availableWidth  == Mul(screenWidth, Num(56, 100))
               availableHeight == FromInt(dim.height - 80)
               viewfinderHeight == Mul(availableHeight, Num(85, 100))
               viewfinderWidth  == Mul(viewfinderHeight, filmAspectRatio)
               widthBudget      == Mul(availableWidth, Num(9, 10))
           IN  IF Gt(viewfinderWidth, widthBudget)
               THEN [width  |-> widthBudget,
                     height |-> Div(widthBudget, filmAspectRatio)]
               ELSE [width |-> viewfinderWidth, height |-> viewfinderHeight]
      ELSE LET availableWidth  == FromInt(dim.width - 32)
               availableHeight == Mul(screenHeight, Num(50, 100))
               viewfinderWidth  == Mul(availableWidth, Num(95, 100))
               viewfinderHeight == Div(viewfinderWidth, filmAspectRatio)
           IN  IF Gt(viewfinderHeight, availableHeight)
               THEN [width  |-> Mul(availableHeight, filmAspectRatio),
                     height |-> availableHeight]
               ELSE [width |-> viewfinderWidth, height |-> viewfinderHeight]

-----------------------------------------------------------------------------
(* The specification                                                       *)

Init ==
  /\ \E cond \in ConditionInputs, stops \in BracketValues,
        reciprocity \in BOOLEAN, redFilter \in BOOLEAN,
        orientation \in {Absent, "landscape", "portrait"} :
       settings = [ focalLength           |-> FromInt(50),
                    pinholeSize           |-> Num(3, 10),
                    filmFormat            |-> FILM_FORMATS[1],
                    filmOrientation       |-> orientation,
                    iso                   |-> ISO_VALUES[1],
                    selectedCondition     |-> cond,
                    bracketStops          |-> stops,
                    useReciprocityFailure |-> reciprocity,
                    useRedFilter          |-> redFilter ]
  /\ dimensions \in ScreenSizes
  /\ permission = "null"
  /\ secondsArg = FromInt(0)
  /\ rendered = NotCalled
  /\ InitNoProfiles

Next ==
  \/ \E value \in BracketValues : handleBracketChange(value)
  \/ toggleOrientation
  \/ \E window \in ScreenSizes : dimensionsChange(window)
  \/ \E granted \in BOOLEAN : permissionLoaded(granted)
  \/ \E granted \in BOOLEAN : requestPermission(granted)
  \/ \E parsed \in FocalLengthInputs : changeFocalLength(parsed)
  \/ \E parsed \in PinholeSizeInputs : changePinholeSize(parsed)
  \/ \E format \in Range(FILM_FORMATS) : pressFilmFormat(format)
  \/ \E orientation \in {"landscape", "portrait"} :
       pressFilmOrientation(orientation)
  \/ \E isoValue \in Range(ISO_VALUES) : pressIso(isoValue)

Spec == Init /\ [][Next]_vars

\* the default settings record
DefaultSettings ==
  [ focalLength           |-> FromInt(50),
    pinholeSize           |-> Num(3, 10),
    filmFormat            |-> FILM_FORMATS[1],
    filmOrientation       |-> Absent,
    iso                   |-> ISO_VALUES[1],
    selectedCondition     |-> Absent,
    bracketStops          |-> 0,
    useReciprocityFailure |-> FALSE,
    useRedFilter          |-> FALSE ]

(* formatExposure as a function of its argument: one call per behaviour    *)

callFormatExposure ==
  /\ rendered = NotCalled
  /\ rendered' = formatExposure(secondsArg)
  /\ UNCHANGED <<settings, dimensions, permission, secondsArg, profileVars>>

InitFormat ==
  /\ settings = DefaultSettings
  /\ dimensions \in ScreenSizes
  /\ permission = "null"
  /\ secondsArg \in SecondsInputs
  /\ rendered = NotCalled
  /\ InitNoProfiles

NextFormat == callFormatExposure

SpecFormat == InitFormat /\ [][NextFormat]_vars

(* The viewfinder geometry over every window size of the grid              *)

InitGeometry ==
  /\ \E orientation \in {Absent, "landscape", "portrait"} :
       settings = [DefaultSettings EXCEPT !.filmOrientation = orientation]
  /\ dimensions \in ScreenGrid
  /\ permission = "null"
  /\ secondsArg = FromInt(0)
  /\ rendered = NotCalled
  /\ InitNoProfiles

NextGeometry ==
  \/ toggleOrientation
  \/ \E window \in ScreenGrid : dimensionsChange(window)
  \/ \E granted \in BOOLEAN : permissionLoaded(granted)
  \/ \E format \in Range(FILM_FORMATS) : pressFilmFormat(format)
  \/ \E orientation \in {"landscape", "portrait"} :
       pressFilmOrientation(orientation)

SpecGeometry == InitGeometry /\ [][NextGeometry]_vars

(* The profiles and their storage                                          *)

InitProfileStorage ==
  /\ settings = DefaultSettings
  /\ dimensions = [width |-> 360, height |-> 800]
  /\ permission = "null"
  /\ secondsArg = FromInt(0)
  /\ rendered = NotCalled
  /\ InitProfiles

NextProfiles ==
  \/ toggleShowProfiles
  \/ \E text \in NameInputs : setProfileName(text)
  \/ saveProfile
  \/ \E profile \in Range(profiles) : loadProfile(profile)
  \/ \E profile \in Range(profiles) : deleteProfile(profile.id)
  \/ getItemResolves
  \/ getItemRejects
  \/ setItemResolves
  \/ setItemRejects
  \/ tick

SpecProfiles == InitProfileStorage /\ [][NextProfiles]_vars


(* calculateExposure as a function of the settings record, over records    *)
(* that no control of the screens produces as well: one call per behaviour *)

\* focal lengths (mm): two of them give, with the pinhole 0.4, the quotients
\* 687/11 = 62.4545.. and 1063/17 = 62.5294.. that toFixed(1) renders alike
ExposureFocalInputs ==
  {FromInt(0), Num(1374, 55), Num(2126, 85), FromInt(50)}

ExposurePinholeInputs == {FromInt(0), Num(3, 10), Num(4, 10)}

ExposureIsoInputs == {-100, 0} \cup Range(ISO_VALUES)

callCalculateExposure ==
  /\ rendered = NotCalled
  /\ rendered' = calculateExposure(settings)
  /\ UNCHANGED <<settings, dimensions, permission, secondsArg, profileVars>>

InitExposure ==
  /\ \E focalLength \in ExposureFocalInputs,
        pinholeSize \in ExposurePinholeInputs,
        iso \in ExposureIsoInputs,
        cond \in ConditionInputs, stops \in BracketValues,
        reciprocity \in BOOLEAN, redFilter \in BOOLEAN :
       settings = [ focalLength           |-> focalLength,
                    pinholeSize           |-> pinholeSize,
                    filmFormat            |-> FILM_FORMATS[1],
                    filmOrientation       |-> Absent,
                    iso                   |-> iso,
                    selectedCondition     |-> cond,
                    bracketStops          |-> stops,
                    useReciprocityFailure |-> reciprocity,
                    useRedFilter          |-> redFilter ]
  /\ dimensions = [width |-> 360, height |-> 800]
  /\ permission = "null"
  /\ secondsArg = FromInt(0)
  /\ rendered = NotCalled
  /\ InitNoProfiles

NextExposure == callCalculateExposure

SpecExposure == InitExposure /\ [][NextExposure]_vars


(* The settings record under the controls of the two screens and the       *)
(* profiles read from storage                                              *)

InitSettings ==
  /\ \E stops \in BracketValues :
       settings = [DefaultSettings EXCEPT !.selectedCondition = "Sunny",
                                          !.bracketStops = stops]
  /\ dimensions = [width |-> 360, height |-> 800]
  /\ permission = "null"
  /\ secondsArg = FromInt(0)
  /\ rendered = NotCalled
  /\ InitProfiles

NextSettings ==
  \/ \E value \in BracketValues : handleBracketChange(value)
  \/ toggleOrientation
  \/ \E granted \in BOOLEAN : permissionLoaded(granted)
  \/ \E parsed \in FocalLengthInputs : changeFocalLength(parsed)
  \/ \E parsed \in PinholeSizeInputs : changePinholeSize(parsed)
  \/ \E orientation \in {"landscape", "portrait"} :
       pressFilmOrientation(orientation)
  \/ \E isoValue \in Range(ISO_VALUES) : pressIso(isoValue)
  \/ getItemResolves
  \/ toggleShowProfiles
  \/ \E profile \in Range(profiles) : loadProfile(profile)

SpecSettings == InitSettings /\ [][NextSettings]_vars


(* Profiles saved and loaded while the settings are edited                 *)

InitSnapshots ==
  /\ settings = DefaultSettings
  /\ dimensions = [width |-> 360, height |-> 800]
  /\ permission = "null"
  /\ secondsArg = FromInt(0)
  /\ rendered = NotCalled
  /\ InitNoProfiles

NextSnapshots ==
  \/ toggleShowProfiles
  \/ \E text \in NameInputs : setProfileName(text)
  \/ saveProfile
  \/ \E profile \in Range(profiles) : loadProfile(profile)
  \/ getItemResolves
  \/ setItemResolves
  \/ \E orientation \in {"landscape", "portrait"} :
       pressFilmOrientation(orientation)
  \/ \E isoValue \in Range(ISO_VALUES) : pressIso(isoValue)

SpecSnapshots == InitSnapshots /\ [][NextSnapshots]_vars


-----------------------------------------------------------------------------
(* Properties                                                              *)

PositiveOptics(s) ==
  Gt(s.focalLength, FromInt(0)) /\ Gt(s.pinholeSize, FromInt(0))

\* C1: for positive focalLength and pinholeSize, calculateFStop returns the
\* decimal with one fractional digit nearest to focalLength / pinholeSize
\* (at most half a tenth away), and the camera-settings screen returns the
\* same literal as the viewfinder screen.
FStopRoundedToOneDecimal ==
  PositiveOptics(settings) =>
    LET q   == Div(settings.focalLength, settings.pinholeSize)
        lit == calculateFStop(settings)
    IN  /\ lit.kind = "decimal"
        /\ 2 * Abs(10 * q.n - lit.tenths * q.d) <= q.d
        /\ calculateFStopCameraSettings(settings) = lit

\* the focal length was edited to 25 mm with a 0.3 mm pinhole: 83.333...
\* is shown as 83.3
FStopRoundedWitness ==
  /\ settings.focalLength = FromInt(25)
  /\ settings.pinholeSize = Num(3, 10)
  /\ LiteralString(calculateFStop(settings)) = "83.3"
  /\ LiteralString(calculateFStopCameraSettings(settings)) = "83.3"

\* C2: formatExposure renders seconds < 1 as "1/{k}s" with k the integer
\* nearest to 1/seconds, 1 <= seconds < 60 as the nearest decimal with one
\* fractional digit followed by "s", and seconds >= 60 as "{m}m {q}s" with
\* m the whole minutes and q the rounded remaining seconds, or "{m}m" when
\* q is 0; 0.5, 2.3, 75 and 120 give "1/2s", "2.3s", "1m 15s" and "2m".
FormatExposureRenderings ==
  rendered # NotCalled =>
    LET n == secondsArg.n
        d == secondsArg.d
    IN  /\ (n > 0 /\ n < d) =>
              \E k \in 1 .. 2 * MaxSecondsNumerator :
                /\ (2 * k - 1) * n <= 2 * d
                /\ 2 * d < (2 * k + 1) * n
                /\ rendered = "1/" \o ToString(k) \o "s"
        /\ n = 0 => rendered = "1/Infinitys"
        /\ (d <= n /\ n < 60 * d) =>
              \E t \in 10 .. 600 :
                /\ (2 * t - 1) * d <= 20 * n
                /\ 20 * n < (2 * t + 1) * d
                /\ rendered = ToString(t \div 10) \o "." \o ToString(t % 10) \o "s"
        /\ n >= 60 * d =>
              \E m \in 1 .. MaxSecondsNumerator \div 60, q \in 0 .. 60 :
                /\ 60 * m * d <= n
                /\ n < 60 * (m + 1) * d
                /\ (2 * q - 1) * d <= 2 * (n - 60 * m * d)
                /\ 2 * (n - 60 * m * d) < (2 * q + 1) * d
                /\ rendered = IF q = 0 THEN ToString(m) \o "m"
                              ELSE ToString(m) \o "m " \o ToString(q) \o "s"
        /\ secondsArg = Num(1, 2)   => rendered = "1/2s"
        /\ secondsArg = Num(23, 10) => rendered = "2.3s"
        /\ secondsArg = FromInt(75)  => rendered = "1m 15s"
        /\ secondsArg = FromInt(120) => rendered = "2m"

\* formatExposure(75) has returned "1m 15s"
FormatExposureWitness ==
  secondsArg = FromInt(75) /\ rendered = "1m 15s"

\* the selected condition is the name of a catalog entry
Resolved(s) ==
  s.selectedCondition # Absent /\ findCondition(s.selectedCondition) # {}

\* the exposure time of a resolved record, before formatting
PreFormat(s) == exposureTime(s, firstCondition(s.selectedCondition))

\* C3: with a resolved condition, the record that differs only in having
\* bracketStops one higher has exactly twice the pre-format exposure time,
\* for every bracketStops below 3.
BracketStopDoubles ==
  (Resolved(settings) /\ PositiveOptics(settings)
     /\ settings.bracketStops < 3) =>
    PreFormat([settings EXCEPT !.bracketStops = @ + 1])
      = Mul(FromInt(2), PreFormat(settings))

\* the slider was moved to +1 with the reciprocity correction in force:
\* the exposure is twice the one at 0
BracketStopWitness ==
  /\ Resolved(settings) /\ PositiveOptics(settings)
  /\ permission = "granted"
  /\ settings.bracketStops = 1
  /\ settings.useReciprocityFailure
  /\ Gt(uncorrectedExposure(settings, firstCondition(settings.selectedCondition)),
        FromInt(1))
  /\ PreFormat(settings)
       = Mul(FromInt(2), PreFormat([settings EXCEPT !.bracketStops = 0]))

\* C4: with a resolved condition, the record with useRedFilter set has
\* exactly 8 times the pre-format exposure time of the record that differs
\* only in having it cleared, whatever the other flags.
RedFilterEightfold ==
  (Resolved(settings) /\ PositiveOptics(settings)) =>
    PreFormat([settings EXCEPT !.useRedFilter = TRUE])
      = Mul(FromInt(8), PreFormat([settings EXCEPT !.useRedFilter = FALSE]))

\* the filter is on together with the reciprocity correction (in force)
\* and a bracket of -2 stops
RedFilterWitness ==
  /\ Resolved(settings) /\ PositiveOptics(settings)
  /\ settings.useRedFilter /\ settings.useReciprocityFailure
  /\ settings.iso = 400
  /\ settings.bracketStops = -2
  /\ Gt(uncorrectedExposure(settings, firstCondition(settings.selectedCondition)),
        FromInt(1))
  /\ PreFormat(settings)
       = Mul(FromInt(8), PreFormat([settings EXCEPT !.useRedFilter = FALSE]))

\* C5: with the exposure before the correction at most 1 second the
\* pre-format exposure is the same with useReciprocityFailure set as with
\* it cleared; above 1 second, and with the flag set, it is that exposure
\* raised to 1.3, times the filter and bracketing factors; with the flag
\* cleared it is never raised.
ReciprocityOnlyAboveOneSecond ==
  (Resolved(settings) /\ PositiveOptics(settings)) =>
    LET x0      == uncorrectedExposure(settings,
                                       firstCondition(settings.selectedCondition))
        on      == PreFormat([settings EXCEPT !.useReciprocityFailure = TRUE])
        off     == PreFormat([settings EXCEPT !.useReciprocityFailure = FALSE])
        factors(x) ==
          Mul(IF settings.useRedFilter THEN Mul(x, FromInt(8)) ELSE x,
              Pow2(settings.bracketStops))
    IN  /\ off = factors(x0)
        /\ ~Gt(x0, FromInt(1)) => on = off
        /\ Gt(x0, FromInt(1))  => on = factors(Pow13(x0)) /\ on # off

\* the flag is set and the exposure before the correction is between a
\* half and one second: nothing is corrected
ReciprocityWitness ==
  /\ Resolved(settings) /\ PositiveOptics(settings)
  /\ settings.useReciprocityFailure
  /\ LET x0 == uncorrectedExposure(settings,
                                    firstCondition(settings.selectedCondition))
     IN  Gt(x0, Num(1, 2)) /\ ~Gt(x0, FromInt(1))
  /\ PreFormat(settings)
       = PreFormat([settings EXCEPT !.useReciprocityFailure = FALSE])

\* C6: calculateExposure returns null when selectedCondition is absent or
\* is not the name of a catalog entry, and a non-empty string when it is.
NoConditionNoExposure ==
  LET matches == \E i \in DOMAIN LIGHTING_CONDITIONS :
                   LIGHTING_CONDITIONS[i].name = settings.selectedCondition
  IN  /\ (settings.selectedCondition = Absent \/ ~matches) =>
            calculateExposure(settings) = Null
      /\ (settings.selectedCondition # Absent /\ matches) =>
            calculateExposure(settings) \notin {Null, ""}

\* a name that is not in the catalog is selected and the screen, with the
\* permission granted, shows no exposure
NoConditionWitness ==
  /\ settings.selectedCondition = "Moonlight"
  /\ permission = "granted"
  /\ calculateExposure(settings) = Null

Le(x, y) == ~Gt(x, y)

\* the rectangles of the three screens for the current settings and window
ViewfinderRectangles ==
  { calculateViewfinderSize(settings, dimensions),
    calculateViewfinderSizePart002(settings, dimensions),
    calculateViewfinderSizePart003(settings, dimensions) }

\* C7: in every screen variant the rectangle has the aspect ratio of the
\* orientation-adjusted film format:
\* width * effectiveHeight = height * effectiveWidth.
AspectRatioPreserved ==
  LET eff == getEffectiveDimensions(settings)
  IN  \A r \in ViewfinderRectangles :
        Mul(r.width, FromInt(eff.height)) = Mul(r.height, FromInt(eff.width))

\* a landscape window in which the 4x5 format was chosen and the width was
\* clamped to 58% of the screen, the height following the aspect ratio
AspectRatioWitness ==
  LET r == calculateViewfinderSize(settings, dimensions)
  IN  /\ isDeviceLandscape(dimensions)
      /\ settings.filmFormat.name = "4x5"
      /\ settings.filmOrientation = "landscape"
      /\ r.width = Mul(FromInt(dimensions.width), Num(58, 100))
      /\ Lt(r.height, Mul(FromInt(dimensions.height - 20), Num(92, 100)))
      /\ Mul(r.width, FromInt(102)) = Mul(r.height, FromInt(127))

\* C8: the rectangle never exceeds the budget of its layout, in each of
\* the three screens and both device orientations.
ViewfinderWithinBudget ==
  LET w  == FromInt(dimensions.width)
      h  == FromInt(dimensions.height)
      r1 == calculateViewfinderSize(settings, dimensions)
      r2 == calculateViewfinderSizePart002(settings, dimensions)
      r3 == calculateViewfinderSizePart003(settings, dimensions)
  IN  IF dimensions.width > dimensions.height
      THEN /\ Le(r1.width, Mul(w, Num(58, 100)))
           /\ Le(r1.height, Mul(FromInt(dimensions.height - 20), Num(92, 100)))
           /\ Le(r2.width, Mul(w, Num(85, 100)))
           /\ Le(r2.height, Mul(FromInt(dimensions.height - 200), Num(85, 100)))
           /\ Le(r3.width, Mul(Mul(w, Num(56, 100)), Num(9, 10)))
           /\ Le(r3.height, Mul(FromInt(dimensions.height - 80), Num(85, 100)))
      ELSE /\ Le(r1.width, Mul(FromInt(dimensions.width - 32), Num(95, 100)))
           /\ Le(r1.height, Mul(h, Num(50, 100)))
           /\ Le(r2.width, Mul(FromInt(dimensions.width - 48), Num(95, 100)))
           /\ Le(r2.height, Mul(h, Num(55, 100)))
           /\ Le(r3.width, Mul(FromInt(dimensions.width - 32), Num(95, 100)))
           /\ Le(r3.height, Mul(h, Num(50, 100)))

\* a portrait window in which the film was turned to portrait and the
\* height was clamped to half the screen, the width staying below its budget
ViewfinderBudgetWitness ==
  LET r == calculateViewfinderSize(settings, dimensions)
  IN  /\ ~isDeviceLandscape(dimensions)
      /\ settings.filmOrientation = "portrait"
      /\ r.height = Mul(FromInt(dimensions.height), Num(50, 100))
      /\ Lt(r.width, Mul(FromInt(dimensions.width - 32), Num(95, 100)))
      /\ Gt(r.width, FromInt(0))

\* C9: getEffectiveDimensions swaps width and height exactly when
\* filmOrientation is 'portrait'; a format W x H in portrait has the
\* effective dimensions and the viewfinder rectangle of the format H x W in
\* landscape, for every window size.
OrientationSwapsDimensions ==
  LET fmt     == settings.filmFormat
      eff     == getEffectiveDimensions(settings)
      turned  == [settings EXCEPT
                    !.filmFormat = [fmt EXCEPT !.width = fmt.height,
                                               !.height = fmt.width],
                    !.filmOrientation = "landscape"]
  IN  /\ settings.filmOrientation = "portrait" =>
            /\ eff = [width |-> fmt.height, height |-> fmt.width]
            /\ eff = getEffectiveDimensions(turned)
            /\ calculateViewfinderSize(settings, dimensions)
                 = calculateViewfinderSize(turned, dimensions)
      /\ settings.filmOrientation # "portrait" =>
            eff = [width |-> fmt.width, height |-> fmt.height]

\* the 4x5 format (127 x 102) was turned to portrait: 102 x 127
OrientationSwapWitness ==
  /\ settings.filmFormat.name = "4x5"
  /\ settings.filmOrientation = "portrait"
  /\ permission # "null"
  /\ getEffectiveDimensions(settings) = [width |-> 102, height |-> 127]

\* every field of the settings record but the named one keeps its value
OnlyFieldChanged(field) ==
  /\ DOMAIN settings' = DOMAIN settings
  /\ \A f \in DOMAIN settings : f # field => settings'[f] = settings[f]

\* C10: handleBracketChange, toggleOrientation and the five controls of the
\* camera-settings screen each replace the settings record by one in which
\* every field but the one the handler targets keeps its previous value.
SettingsHandlersFrame ==
  [][ /\ OnlyFieldChanged("bracketStops")
           \/ ~(\E value \in BracketValues \cap {settings'.bracketStops} :
                  handleBracketChange(value))
      /\ OnlyFieldChanged("filmOrientation") \/ ~toggleOrientation
      /\ OnlyFieldChanged("focalLength")
           \/ ~(\E parsed \in FocalLengthInputs : changeFocalLength(parsed))
      /\ OnlyFieldChanged("pinholeSize")
           \/ ~(\E parsed \in PinholeSizeInputs : changePinholeSize(parsed))
      /\ OnlyFieldChanged("filmFormat")
           \/ ~(\E format \in Range(FILM_FORMATS) : pressFilmFormat(format))
      /\ OnlyFieldChanged("filmOrientation")
           \/ ~(\E orientation \in {"landscape", "portrait"} :
                  pressFilmOrientation(orientation))
      /\ OnlyFieldChanged("iso")
           \/ ~(\E isoValue \in Range(ISO_VALUES) : pressIso(isoValue))
    ]_vars

\* every control has been used: the five camera settings and the bracket
\* differ from the record the screens started with, the flags do not
SettingsHandlersWitness ==
  /\ settings.focalLength = FromInt(25)
  /\ settings.pinholeSize = Num(4, 10)
  /\ settings.filmFormat.name = "6x6"
  /\ settings.filmOrientation = "portrait"
  /\ settings.iso = 400
  /\ settings.bracketStops = 2
  /\ settings.selectedCondition = "Cloudy"
  /\ settings.useRedFilter /\ ~settings.useReciprocityFailure

\* the read issued by loadProfiles fails: the promise is rejected, or the
\* stored text is not JSON and JSON.parse throws
ReadFails ==
  \/ getItemRejects
  \/ stored.kind = "corrupt" /\ getItemResolves

\* C11: when the storage read issued by loadProfiles fails, the failure is
\* logged, the in-memory profile list is the one from before the read, and
\* nothing is shown to the user.
LoadFailureKeepsProfiles ==
  [][ (profiles' = profiles /\ alert' = alert /\ errorLogged')
      \/ ~ReadFails ]_vars

\* a read has failed while the list held a profile saved before it did
LoadFailureWitness ==
  /\ errorLogged
  /\ profiles # <<>>
  /\ \A i \in DOMAIN pending : pending[i].op # "getItem"

\* C12: when the storage write issued by saveProfile or by deleteProfile
\* fails, the failure is logged and handled, and the in-memory profile list
\* is the one the handler found when it started.
WriteFailureKeepsProfiles ==
  [][ ~setItemRejects
      \/ ( /\ errorLogged'
           /\ ~unhandledRejection'
           /\ profiles' = Head(pending).captured ) ]_vars

\* C13: whatever the interleaving of the mount-time read with saveProfile
\* and deleteProfile, once no storage operation is pending the in-memory
\* profile list equals the list persisted under 'camera_profiles' (stated
\* for the runs in which no storage operation has failed).
ProfilesMatchStorage ==
  (pending = <<>> /\ ~errorLogged /\ ~unhandledRejection)
    => profiles = stored.list

\* C14: after any sequence of edits of the focal-length and pinhole-diameter
\* fields, starting from positive values, focalLength > 0 and
\* pinholeSize > 0, and the f-stop shown is a decimal.
OpticsStayPositive ==
  /\ PositiveOptics(settings)
  /\ calculateFStopCameraSettings(settings).kind = "decimal"

\* C15: with a resolved lighting condition and iso <= 0 or pinholeSize = 0,
\* calculateExposure returns a display string, never null: the rendering of
\* an exposure time that is not a positive finite number.
PathologicalInputsRendered ==
  (Resolved(settings) /\ (settings.iso <= 0 \/ settings.pinholeSize = FromInt(0)))
    => /\ calculateExposure(settings) # Null
       /\ calculateExposure(settings) = formatExposure(PreFormat(settings))
       /\ ~(IsFinite(PreFormat(settings)) /\ Gt(PreFormat(settings), FromInt(0)))
       /\ rendered \in {NotCalled, calculateExposure(settings)}

\* calculateExposure has returned for a record with negative iso and
\* pinhole diameter 0
PathologicalInputsWitness ==
  /\ Resolved(settings)
  /\ settings.iso < 0
  /\ settings.pinholeSize = FromInt(0)
  /\ rendered # NotCalled
  /\ rendered # Null

\* the records that differ from s in focalLength and pinholeSize only
OtherOptics(s) ==
  { [s EXCEPT !.focalLength = focalLength, !.pinholeSize = pinholeSize] :
      focalLength \in ExposureFocalInputs,
      pinholeSize \in ExposurePinholeInputs }

\* C16: two settings records whose focalLength / pinholeSize have the same
\* one-decimal rendering and that agree on iso, selectedCondition,
\* bracketStops, useReciprocityFailure and useRedFilter have the same
\* exposure string.
ExposureThroughRenderedFStop ==
  \A other \in OtherOptics(settings) :
     calculateFStop(other) = calculateFStop(settings)
       => calculateExposure(other) = calculateExposure(settings)

\* calculateExposure has returned a string for a record that shares its
\* rendered f-stop with a record of another quotient
RenderedFStopWitness ==
  /\ rendered # NotCalled
  /\ rendered # Null
  /\ PositiveOptics(settings)
  /\ \E other \in OtherOptics(settings) :
        /\ calculateFStop(other) = calculateFStop(settings)
        /\ Div(other.focalLength, other.pinholeSize)
             # Div(settings.focalLength, settings.pinholeSize)

\* the factor the red filter and the bracketing put on the exposure time
FilterAndBracketFactor(s) ==
  Mul(IF s.useRedFilter THEN FromInt(8) ELSE FromInt(1), Pow2(s.bracketStops))

\* the exposure time of a resolved record with that factor taken out
BeforeFilterAndBracket(s) == Div(PreFormat(s), FilterAndBracketFactor(s))

\* (1/iso) * (actualFStop/referenceFStop)^2 of a resolved record
BaseExposure(s) == uncorrectedExposure(s, firstCondition(s.selectedCondition))

\* C17: whether the reciprocity correction is applied depends on
\* (1/iso) * (actualFStop/referenceFStop)^2 alone: the exposure time before
\* the filter and bracketing factors is the same for every useRedFilter and
\* bracketStops, and a base exposure <= 1 s is multiplied by the factors
\* uncorrected, also when the product exceeds 1 s.
ReciprocityDecidedOnBase ==
  (Resolved(settings) /\ PositiveOptics(settings) /\ settings.iso > 0)
    => /\ \A redFilter \in BOOLEAN, stops \in BracketValues :
            BeforeFilterAndBracket([settings EXCEPT
                                      !.useRedFilter = redFilter,
                                      !.bracketStops = stops])
              = BeforeFilterAndBracket(settings)
       /\ ~Gt(BaseExposure(settings), FromInt(1))
            => PreFormat(settings)
                 = Mul(BaseExposure(settings), FilterAndBracketFactor(settings))

\* calculateExposure has returned for a record with the correction switched
\* on whose base exposure is at most 1 s and whose exposure time is above
\* 1 s
ReciprocityDecidedWitness ==
  /\ Resolved(settings) /\ PositiveOptics(settings) /\ settings.iso > 0
  /\ settings.useReciprocityFailure
  /\ ~Gt(BaseExposure(settings), FromInt(1))
  /\ Gt(PreFormat(settings), FromInt(1))
  /\ rendered = calculateExposure(settings)

\* the general algorithm: the candidate height is the height budget, the
\* width follows the aspect ratio and is clamped to the width budget, the
\* height then following the aspect ratio
HeightFirst(aspectRatio, heightBudget, widthBudget) ==
  LET candidateWidth == Mul(heightBudget, aspectRatio)
  IN  IF Gt(candidateWidth, widthBudget)
      THEN [width |-> widthBudget, height |-> Div(widthBudget, aspectRatio)]
      ELSE [width |-> candidateWidth, height |-> heightBudget]

BracketStopsInRange == settings.bracketStops \in -3 .. 3

\* the slider is at its maximum after a profile was loaded and the
\* orientation toggled
BracketStopsWitness ==
  /\ alert = "Profile loaded!"
  /\ settings.iso = EarlierProfile.iso
  /\ settings.pinholeSize = EarlierProfile.pinholeSize
  /\ settings.filmOrientation = "portrait"
  /\ settings.bracketStops = 3

\* what the readers of filmOrientation make of a settings record: the
\* effective film dimensions, the viewfinder rectangles, the orientation
\* label, the orientation toggleOrientation switches to, the orientation
\* saveProfile stores and the orientation buttons drawn as selected
OrientationReadings(s) ==
  [ effective |-> getEffectiveDimensions(s),
    rectangle |-> [dim \in ScreenSizes |-> calculateViewfinderSize(s, dim)],
    label     |-> filmOrientationLabel(s),
    toggled   |-> newOrientation(s),
    saved     |-> newProfile(s, "1", <<"a">>).filmOrientation,
    selected  |-> orientationButtonActive(s) ]

\* C20: a settings record without filmOrientation is read by every reader
\* of the field as the record that differs from it only in having
\* filmOrientation 'landscape'.
AbsentOrientationIsLandscape ==
  settings.filmOrientation = Absent
    => OrientationReadings(settings)
         = OrientationReadings([settings EXCEPT !.filmOrientation = "landscape"])

\* the effective film dimensions and the rectangles of the three screens
EffectiveGeometry(s) ==
  << getEffectiveDimensions(s),
     calculateViewfinderSize(s, dimensions),
     calculateViewfinderSizePart002(s, dimensions),
     calculateViewfinderSizePart003(s, dimensions) >>

\* C21: toggleOrientation yields 'landscape' from 'portrait' and 'portrait'
\* from 'landscape' or an absent orientation, and a second toggle after it
\* gives back the effective film dimensions and the viewfinder rectangle
\* from before the first.
ToggleOrientationSwitches ==
  [][ ~toggleOrientation
      \/ ( /\ settings'.filmOrientation =
                IF settings.filmOrientation \in {"landscape", Absent}
                THEN "portrait" ELSE "landscape"
           /\ EffectiveGeometry([settings' EXCEPT
                                   !.filmOrientation = newOrientation(settings')])
                = EffectiveGeometry(settings) ) ]_vars

\* the 4x5 format is in portrait orientation, with the controls on screen,
\* and a toggle changes its rectangle
ToggleOrientationWitness ==
  /\ controlsRendered
  /\ settings.filmOrientation = "portrait"
  /\ settings.filmFormat = FILM_FORMATS[3]
  /\ EffectiveGeometry([settings EXCEPT
                          !.filmOrientation = newOrientation(settings)])
       # EffectiveGeometry(settings)

\* the film orientation a profile stands for: landscape when it has none
ProfileOrientation(profile) ==
  IF profile.filmOrientation = Absent THEN "landscape"
  ELSE profile.filmOrientation

\* C22: loadProfile gives focalLength, pinholeSize, filmFormat,
\* filmOrientation and iso the values of the profile (landscape for a
\* profile that records no orientation) and leaves selectedCondition,
\* bracketStops, useReciprocityFailure, useRedFilter, the in-memory profile
\* list and the persisted profile list unchanged.
LoadProfileFrame ==
  [][ \A profile \in Range(profiles) :
        ~loadProfile(profile)
        \/ ( /\ settings'.focalLength = profile.focalLength
             /\ settings'.pinholeSize = profile.pinholeSize
             /\ settings'.filmFormat = profile.filmFormat
             /\ settings'.filmOrientation = ProfileOrientation(profile)
             /\ settings'.iso = profile.iso
             /\ settings'.selectedCondition = settings.selectedCondition
             /\ settings'.bracketStops = settings.bracketStops
             /\ settings'.useReciprocityFailure = settings.useReciprocityFailure
             /\ settings'.useRedFilter = settings.useRedFilter
             /\ DOMAIN settings' = DOMAIN settings
             /\ profiles' = profiles
             /\ stored' = stored ) ]_vars

\* a profile was loaded over settings whose bracket slider is at -3
LoadProfileWitness ==
  /\ alert = "Profile loaded!"
  /\ ~showProfiles
  /\ settings.focalLength = EarlierProfile.focalLength
  /\ settings.filmFormat = EarlierProfile.filmFormat
  /\ settings.filmOrientation = "landscape"
  /\ settings.bracketStops = -3

\* the five fields a profile records, the orientation as it is read
Snapshot(s) ==
  << s.focalLength, s.pinholeSize, s.filmFormat,
     IF s.filmOrientation = Absent THEN "landscape" ELSE s.filmOrientation,
     s.iso >>

\* the records the orientation and ISO controls can make of s
Edited(s) ==
  { [s EXCEPT !.filmOrientation = orientation, !.iso = isoValue] :
      orientation \in {s.filmOrientation, "landscape", "portrait"},
      isoValue \in Range(ISO_VALUES) }

ExposureLogicEquivalent ==
  /\ calculateFStopPart002(settings) = calculateFStop(settings)
  /\ calculateFStopPart003(settings) = calculateFStop(settings)
  /\ calculateExposurePart002(settings) = calculateExposure(settings)
  /\ calculateExposurePart003(settings) = calculateExposure(settings)

\* the three screens render an exposure of minutes, corrected for
\* reciprocity, filtered and bracketed
ExposureLogicWitness ==
  /\ Resolved(settings) /\ PositiveOptics(settings) /\ settings.iso > 0
  /\ settings.useReciprocityFailure
  /\ settings.useRedFilter
  /\ settings.bracketStops = 3
  /\ Gt(BaseExposure(settings), FromInt(1))
  /\ Gt(PreFormat(settings), FromInt(60))
  /\ rendered = calculateExposurePart002(settings)
  /\ rendered = calculateExposurePart003(settings)

\* C25: for seconds >= 60 the seconds component formatExposure displays is
\* an integer in 0 .. 59: the string it returns is never "{m}m 60s".
SecondsComponentBelowSixty ==
  (rendered # NotCalled /\ ~Lt(secondsArg, FromInt(60)))
    => rendered \notin
         { ToString(m) \o "m 60s" : m \in 0 .. (MaxSecondsNumerator \div 60) + 1 }

\* C26: for every window of positive width and height and every film
\* format, the rectangle calculateViewfinderSize returns has a strictly
\* positive width and a strictly positive height, in each of the three
\* screens and in both device orientations.
ViewfinderStrictlyPositive ==
  (dimensions.width > 0 /\ dimensions.height > 0)
    => \A r \in ViewfinderRectangles :
         Gt(r.width, FromInt(0)) /\ Gt(r.height, FromInt(0))

\* C27: when the write of a saveProfile call with a non-blank name
\* completes, the persisted list is the list persisted before it, in the
\* same order, followed by the new profile, also when saveProfile was
\* called before the mount-time read resolved (stated for the runs in which
\* no storage operation has failed).
SaveOnlyAppends ==
  [][ ( /\ setItemResolves
        /\ Head(pending).caller = "saveProfile"
        /\ ~errorLogged /\ ~unhandledRejection )
      => ( /\ Len(stored'.list) = Len(stored.list) + 1
           /\ SubSeq(stored'.list, 1, Len(stored.list)) = stored.list ) ]_vars

\* the list without its i-th entry
RemoveAt(list, i) ==
  SubSeq(list, 1, i - 1) \o SubSeq(list, i + 1, Len(list))

\* C28: deleteProfile(id), for the id of a listed profile, leaves the
\* in-memory list with exactly one entry fewer, the other profiles in
\* their order, for every list saveProfile can build.
DeleteRemovesOne ==
  [][ \A profile \in Range(profiles) :
        ~deleteProfile(profile.id)
        \/ \E i \in DOMAIN profiles :
             /\ profiles[i].id = profile.id
             /\ profiles' = RemoveAt(profiles, i) ]_vars

\* a text that is empty or holds white space only
Blank(text) == \A i \in DOMAIN text : text[i] = " "

\* C29: saveProfile with an empty or whitespace-only profile name changes
\* neither the in-memory profile list, the persisted list, the profileName
\* field nor the settings record, and issues no storage write.
BlankNameRejected ==
  [][ (saveProfile /\ Blank(profileName))
      => ( /\ profiles' = profiles
           /\ stored' = stored
           /\ profileName' = profileName
           /\ settings' = settings
           /\ pending' = pending ) ]_vars

\* saveProfile has refused a name made of a space
BlankNameWitness ==
  /\ alert = "Please enter a profile name"
  /\ profileName = <<" ">>
  /\ showProfiles

\* the screens of ViewfinderScreen.tsx and part_003 as they are rendered
RenderedViews ==
  {render(permission, dimensions), renderPart003(permission, dimensions)}

\* C30: the live camera view is rendered only while the camera permission
\* is granted; while the status is unknown an empty container is rendered,
\* and while it is known and not granted the permission request is rendered
\* and the camera is not, in both device orientations and whatever the
\* dimension changes and settings updates before.
CameraOnlyWhenGranted ==
  \A view \in RenderedViews :
     /\ view.camera => permission = "granted"
     /\ permission = "null" => view = View("empty", FALSE, FALSE)
     /\ permission = "denied" => (view.request /\ ~view.camera)
     /\ permission = "granted" => (view.camera /\ ~view.request)

\* the permission was refused on a landscape device, the ISO was changed
\* and the request is on screen
CameraPermissionWitness ==
  /\ permission = "denied"
  /\ isDeviceLandscape(dimensions)
  /\ settings.iso = ISO_VALUES[2]
  /\ render(permission, dimensions) = View("landscape", FALSE, TRUE)

====
